---- MODULE Spec2Model ----
(***************************************************************************)
(* Model of prst.utils.gridtools.getNeighborship.                          *)
(*                                                                         *)
(* getNeighborship is a pure function of the grid and its three flags: the *)
(* inputs are drawn in Init and one action applies the call.  Each         *)
(* statement of the function is an operator, composed in source order.     *)
(* An ndarray is a record [id, rows]: id names the array object (so that   *)
(* aliasing of the grid's own arrays is visible) and rows is the sequence  *)
(* of its rows.                                                            *)
(***************************************************************************)
EXTENDS Integers, Sequences, FiniteSets, TLC

\* ---------------------------------------------------------------- bounds
MaxFaces == 2       \* rows of G.faces.neighbors
MaxNnc == 1         \* rows of G.nnc.cells

\* ------------------------------------------------------ program constants
Outside == -1       \* the boundary sentinel compared against in line 106
NCols == 2          \* the column count asserted in line 112
FlagArity == 2      \* nargout threshold of lines 108 and 115

\* ------------------------------------------------------------ input space
\* entries of the arrays: the sentinel and two distinct cell ids
Cell == {Outside, 0, 1}

\* column counts of G.nnc.cells: the well-formed one, one fewer, one more
ColCounts == {NCols - 1, NCols, NCols + 1}

\* nargout: N alone (the default) or the pair
Nargouts == {1, 2}

RowsOfWidth(c) == [1..c -> Cell]

MatrixRows(c, n) == UNION {[1..k -> RowsOfWidth(c)] : k \in 0..n}

\* G.nnc: absent, present without a cells attribute, or present with cells
NoNnc == [has |-> FALSE, has_cells |-> FALSE, cells |-> [shape1 |-> NCols, rows |-> <<>>]]

NncNoCells == [has |-> TRUE, has_cells |-> FALSE, cells |-> [shape1 |-> NCols, rows |-> <<>>]]

NncWithCells == UNION {{[has |-> TRUE, has_cells |-> TRUE, cells |-> [shape1 |-> c, rows |-> r]] :
                          r \in MatrixRows(c, MaxNnc)} : c \in ColCounts}

Nncs == {NoNnc, NncNoCells} \cup NncWithCells

Grids == [faces : [neighbors : MatrixRows(NCols, MaxFaces)], nnc : Nncs]

Kinds == {"Geometrical", "Topological"}

\* ------------------------------------------------------------ numpy pieces
\* hasattr(G, "nnc")
hasattr_nnc(g) == g.nnc.has

\* hasattr(G.nnc, "cells")
hasattr_cells(g) == g.nnc.has /\ g.nnc.has_cells

\* mutant: a row passes when any one entry is inside
AllInside_any(row) == \E j \in DOMAIN row : row[j] # Outside

\* np.all(N != -1, axis=1) for one row
AllInside(row) == \A j \in DOMAIN row : row[j] # Outside

\* mutant: the mask keeps every row
ExcludeBoundary_none(rows) == rows

\* N[np.all(N != -1, axis=1), :]  (boolean-mask indexing copies)
ExcludeBoundary(rows) == SelectSeq(rows, AllInside)

\* np.zeros((m, 1), dtype=bool)
np_zeros(m) == [i \in 1..m |-> FALSE]

\* mutant: the dtype argument is accepted whatever it is
np_ones_anydtype(m, dtype) == [err |-> "none", rows |-> [i \in 1..m |-> TRUE]]

\* np.ones(shape, dtype): dtype must name a data type; the source passes the
\* integer 1 (written "1" here), which np.dtype rejects with a TypeError
np_ones(m, dtype) ==
    IF dtype \in {"bool", "float"}
    THEN [err |-> "none", rows |-> [i \in 1..m |-> TRUE]]
    ELSE [err |-> "TypeError", rows |-> <<>>]

\* np.vstack((a, b)): column counts must agree
np_vstack(a_rows, a_cols, b_rows, b_cols) ==
    IF a_cols = b_cols
    THEN [err |-> "none", rows |-> a_rows \o b_rows]
    ELSE [err |-> "ValueError", rows |-> <<>>]

\* mutant: the assertion only asks for enough columns
AssertShape_atleast(cells) == cells.shape1 >= NCols

\* assert G.nnc.cells.shape[1] == 2
AssertShape(cells) == cells.shape1 = NCols

\* the condition of line 111
WantsNnc(g, k) == k = "Topological" /\ hasattr_nnc(g) /\ hasattr_cells(g)

\* mutant: the handler catches nothing
Catches_nothing(exc) == FALSE

\* except AttributeError
Catches(exc) == exc = "AttributeError"

\* the expression of line 117, with the exception it raises (if any)
FlagAppend(g, flags) ==
    IF ~hasattr_nnc(g) \/ ~hasattr_cells(g)
    THEN [err |-> "AttributeError", rows |-> <<>>]
    ELSE LET ones == np_ones(Len(g.nnc.cells.rows), "1")
         IN  IF ones.err # "none"
             THEN [err |-> ones.err, rows |-> <<>>]
             ELSE np_vstack(flags, 1, ones.rows, 1)

\* ------------------------------------------------- statements of the call
NoArray == [id |-> "none", rows |-> <<>>]

Running == [status |-> "running", nout |-> 0, N |-> NoArray, isnnc |-> <<>>]

\* an exception leaves the call: nothing is returned
Raise(exc) == [status |-> exc, nout |-> 0, N |-> NoArray, isnnc |-> <<>>]

\* line 102: N = G.faces.neighbors binds the grid's own array object
Bind102(g) == [id |-> "G.faces.neighbors", rows |-> g.faces.neighbors]

\* lines 104-106
Filter104(n, b) ==
    IF ~b THEN [id |-> "fresh", rows |-> ExcludeBoundary(n.rows)] ELSE n

\* lines 108-109
Flags108(n, nout, flags) ==
    IF nout >= FlagArity THEN np_zeros(Len(n.rows)) ELSE flags

\* lines 111-113: the exception raised (or "none") and the new binding of N
Stack111(g, k, n) ==
    IF ~WantsNnc(g, k)
    THEN [err |-> "none", N |-> n]
    ELSE IF ~AssertShape(g.nnc.cells)
    THEN [err |-> "AssertionError", N |-> n]
    ELSE LET s == np_vstack(n.rows, NCols, g.nnc.cells.rows, g.nnc.cells.shape1)
         IN  IF s.err # "none"
             THEN [err |-> s.err, N |-> n]
             ELSE [err |-> "none", N |-> [id |-> "fresh", rows |-> s.rows]]

\* lines 115-122: the outcome of the call
Return115(g, n, flags, nout) ==
    IF nout >= FlagArity
    THEN LET a == FlagAppend(g, flags)
         IN  IF a.err = "none"
             THEN [status |-> "return", nout |-> 2, N |-> n, isnnc |-> a.rows]
             ELSE IF Catches(a.err)
             THEN [status |-> "return", nout |-> 2, N |-> n, isnnc |-> flags]
             ELSE Raise(a.err)
    ELSE [status |-> "return", nout |-> 1, N |-> n, isnnc |-> <<>>]

\* the whole call, as the composition of its statements
getNeighborship(g, k, b, nout) ==
    LET n1 == Filter104(Bind102(g), b)
        f1 == Flags108(n1, nout, <<>>)
        s  == Stack111(g, k, n1)
    IN  IF s.err # "none" THEN Raise(s.err) ELSE Return115(g, s.N, f1, nout)

\* ------------------------------------------------------------------ state
VARIABLES G, kind, incBdry, nargout, result

vars == <<G, kind, incBdry, nargout, result>>

Init ==
    /\ G \in Grids
    /\ kind \in Kinds
    /\ incBdry \in BOOLEAN
    /\ nargout \in Nargouts
    /\ result = Running

\* the call: it returns or raises, and writes nothing to its arguments
Call ==
    /\ result.status = "running"
    /\ result' = getNeighborship(G, kind, incBdry, nargout)
    /\ UNCHANGED <<G, kind, incBdry, nargout>>

Next == Call

Spec == Init /\ [][Next]_vars

\* ----------------------------------------------------------------- claims
Done == result.status # "running"

Returned == result.status = "return"

WithFlags == nargout >= 2

HasSentinel(row) == \E j \in DOMAIN row : row[j] = -1

BothValid(row) == row[1] # -1 /\ row[2] # -1

\* the rows of G.faces.neighbors that the claims expect in N
GeomRows == IF incBdry THEN G.faces.neighbors ELSE SelectSeq(G.faces.neighbors, BothValid)

AllFalse(flags) == \A i \in DOMAIN flags : flags[i] = FALSE

\* the rows appended to N below its geometric part
NncRows == IF kind = "Topological" /\ G.nnc.has /\ G.nnc.has_cells
           THEN G.nnc.cells.rows ELSE <<>>

\* C1: whenever a call with flags requested returns, isnnc has exactly as
\* many rows as N
C1_FlagRowsMatch ==
    (Returned /\ WithFlags) => Len(result.isnnc) = Len(result.N.rows)

C1_Witness ==
    /\ Returned /\ WithFlags /\ kind = "Topological"
    /\ G.nnc.has /\ Len(result.N.rows) = 2 /\ Len(result.isnnc) = 2

\* C2: in Topological mode with flags requested and a K x 2 nnc.cells, the
\* call returns N = the M kept geometric rows followed by the K rows of
\* nnc.cells, and isnnc = M false values followed by K true values
C2_TopologicalFlags ==
    (Done /\ kind = "Topological" /\ WithFlags /\ G.nnc.has /\ G.nnc.has_cells
          /\ G.nnc.cells.shape1 = 2)
    => /\ result.status = "return"
       /\ result.N.rows = GeomRows \o G.nnc.cells.rows
       /\ result.isnnc = [i \in 1..(Len(GeomRows) + Len(G.nnc.cells.rows)) |-> i > Len(GeomRows)]

\* C3: in Geometrical mode with flags requested the call yields an isnnc
\* that is all false, one entry per row of N, whatever G.nnc is
C3_GeometricalAllFalse ==
    (Done /\ kind = "Geometrical" /\ WithFlags)
    => /\ result.status = "return"
       /\ Len(result.isnnc) = Len(result.N.rows)
       /\ AllFalse(result.isnnc)

C5_ShapeError ==
    (Done /\ kind = "Topological" /\ G.nnc.has /\ G.nnc.has_cells /\ G.nnc.cells.shape1 # 2)
    => /\ result.status = "AssertionError"
       /\ result.nout = 0
       /\ result.N = NoArray
       /\ result.isnnc = <<>>

C5_Witness ==
    /\ Done /\ kind = "Topological" /\ G.nnc.has /\ G.nnc.has_cells
    /\ G.nnc.cells.shape1 = 3 /\ Len(G.nnc.cells.rows) = 1
    /\ WithFlags /\ result.status = "AssertionError"

\* C6: without nnc, or with an nnc that has no cells, Topological mode
\* returns the N that Geometrical mode returns (the geometric rows only) and,
\* with flags requested, an all-false isnnc with one entry per row of N
C6_NoNncDegrades ==
    (Done /\ kind = "Topological" /\ ~(G.nnc.has /\ G.nnc.has_cells))
    => /\ result.status = "return"
       /\ result.N.rows = GeomRows
       /\ getNeighborship(G, "Geometrical", incBdry, nargout).status = "return"
       /\ result.N.rows = getNeighborship(G, "Geometrical", incBdry, nargout).N.rows
       /\ WithFlags => /\ result.nout = 2
                       /\ Len(result.isnnc) = Len(result.N.rows)
                       /\ AllFalse(result.isnnc)

C6_Witness ==
    /\ Returned /\ kind = "Topological" /\ WithFlags
    /\ G.nnc.has /\ ~G.nnc.has_cells
    /\ Len(result.N.rows) = 1 /\ result.isnnc = <<FALSE>>

\* C7: the N a call returns is an array allocated by that call, never the
\* array object G.faces.neighbors or G.nnc.cells
C7_FreshN ==
    Returned => result.N.id = "fresh"

C9_GeometricalIgnoresNnc ==
    (Done /\ kind = "Geometrical")
    => \A other \in Nncs :
          getNeighborship([G EXCEPT !.nnc = other], kind, incBdry, nargout) = result

\* C10: the call with flags requested raises iff the call without does, and
\* when both return they return the same N
C10_FlagsDoNotChangeN ==
    Done => LET other == getNeighborship(G, kind, incBdry, IF WithFlags THEN 1 ELSE 2)
            IN  /\ (other.status = "return") <=> (result.status = "return")
                /\ (other.status = "return" /\ result.status = "return")
                   => other.N.rows = result.N.rows

====
